---- MODULE Spec2Model ----
(***************************************************************************)
(* Directed Chinese Postman solver (cpp_solver crate): GraphBuilder,       *)
(* Graph, FloydWarshallRunner, hungarian::best_match, HierholzerRunner and *)
(* CppSolver::solve, modelled as a state machine.                          *)
(*                                                                         *)
(* f64 values are modelled as integers: every weight is an integer, Inf    *)
(* stands for f64::INFINITY, NegInf for f64::NEG_INFINITY and NaN for the  *)
(* result of INFINITY + NEG_INFINITY.  Node indices are 0-based as in the  *)
(* source; matrices are functions over pairs <<i, j>>.                     *)
(***************************************************************************)
EXTENDS Integers, Sequences, FiniteSets, TLC

VARIABLES
    pc,                 \* "builder" | "built" | "ready" | "asked" | "ran" |
                        \* "run_panic" | "panic" | "hang"
    edges,              \* GraphBuilder.edges : Vec<Edge>, <<from, to, weight>>
    max_node,           \* GraphBuilder.max_node
    builder_labels,     \* GraphBuilder.node_labels, labels in index order
    n_nodes,            \* weight_matrix.nrows()
    weight_matrix,      \* Graph.weight_matrix
    edge_counts,        \* Graph.edge_counts (0 = key absent)
    out_degrees,        \* Graph.out_degrees
    shortest_distances, \* FloydWarshallRunner.shortest_distances
    next,               \* FloydWarshallRunner.next
    have_negative_cycle,\* FloydWarshallRunner.have_negative_cycle
    path,               \* HierholzerRunner.path
    result,             \* what the last solve() call returned
    solves,             \* number of solve() calls made on the solver
    shortest_path       \* what the last shortest_path_between call returned

builderVars == <<edges, max_node, builder_labels>>
graphVars   == <<n_nodes, weight_matrix, edge_counts, out_degrees>>
fwVars      == <<shortest_distances, next, have_negative_cycle>>
vars == <<pc, edges, max_node, builder_labels, n_nodes, weight_matrix,
          edge_counts, out_degrees, shortest_distances, next,
          have_negative_cycle, path, result, solves, shortest_path>>

(***************************************************************************)
(* Bounds of the model.                                                    *)
(***************************************************************************)
MaxEdges == 3           \* declarations accepted by one builder
MaxSolves == 2          \* solve() calls made on one solver
DeclEdges == 6          \* length of the pre-declared edge lists
Nodes == 0 .. 2         \* node indices offered to add_edge
DeclNodes == 0 .. 3     \* node indices of the pre-declared edge lists
Weights == {-2, 1}      \* weights offered to add_edge
Labels == {"a", "b"}    \* labels offered to add_labeled_edge

(***************************************************************************)
(* f64 arithmetic.                                                         *)
(***************************************************************************)
Inf == 1000000
NaN == 3000000
NegInf == 0 - Inf

FAdd(a, b) ==
    IF a = NaN \/ b = NaN THEN NaN
    ELSE IF (a = Inf /\ b = NegInf) \/ (a = NegInf /\ b = Inf) THEN NaN
    ELSE IF a = Inf \/ b = Inf THEN Inf
    ELSE IF a = NegInf \/ b = NegInf THEN NegInf
    ELSE a + b

FLess(a, b) == a # NaN /\ b # NaN /\ a < b

UsizeMax == 0 - 1       \* usize::MAX, an index no matrix has

Idx(n) == 0 .. (n - 1)
Pairs(n) == Idx(n) \X Idx(n)
EmptyFn == [p \in {} |-> 0]
Max(a, b) == IF a >= b THEN a ELSE b
Front(s) == SubSeq(s, 1, Len(s) - 1)
Last(s) == s[Len(s)]

RECURSIVE SumOver(_, _)
SumOver(S, f) ==
    IF S = {} THEN 0
    ELSE LET x == CHOOSE y \in S : TRUE IN f[x] + SumOver(S \ {x}, f)

(***************************************************************************)
(* GraphBuilder                                                            *)
(***************************************************************************)
\* Declarations of different pairs commute in build(), which only writes
\* weight_matrix[[from, to]]; the pairs are therefore offered in
\* non-decreasing order, re-declarations of one pair in every order.  A
\* builder is fed either indices or labels, as every caller in the crate does.
PairLeq(e, from, to) == e[1] < from \/ (e[1] = from /\ e[2] <= to)

InOrder(from, to) ==
    IF edges = <<>> THEN TRUE ELSE PairLeq(Last(edges), from, to)

IndexOfLabel(ls, l) == CHOOSE k \in 1 .. Len(ls) : ls[k] = l

\* get_or_insert_label: the labels after the call and the index returned
get_or_insert_label(ls, l) ==
    IF \E k \in 1 .. Len(ls) : ls[k] = l
    THEN [labels |-> ls, index |-> IndexOfLabel(ls, l) - 1]
    ELSE [labels |-> Append(ls, l), index |-> Len(ls)]

GraphBuilder_add_edge(from, to, weight) ==
    /\ pc = "builder"
    /\ Len(edges) < MaxEdges
    /\ builder_labels = <<>>
    /\ InOrder(from, to)
    /\ max_node' = Max(Max(max_node, from), to)
    /\ edges' = Append(edges, <<from, to, weight>>)
    /\ UNCHANGED <<pc, builder_labels, graphVars, fwVars, path, result, solves, shortest_path>>

GraphBuilder_add_labeled_edge(from_label, to_label, weight) ==
    LET f == get_or_insert_label(builder_labels, from_label)
        t == get_or_insert_label(f.labels, to_label)
    IN  /\ pc = "builder"
        /\ Len(edges) < MaxEdges
        /\ Len(edges) > 0 => builder_labels # <<>>
        /\ InOrder(f.index, t.index)
        /\ builder_labels' = t.labels
        /\ max_node' = Max(Max(max_node, f.index), t.index)
        /\ edges' = Append(edges, <<f.index, t.index, weight>>)
        /\ UNCHANGED <<pc, graphVars, fwVars, path, result, solves, shortest_path>>

\* n_nodes of build()
build_n_nodes(mx) == IF mx > 0 THEN mx + 1 ELSE 0

\* the loop `weight_matrix[[from, to]] = weight` over self.edges
RECURSIVE populate(_, _, _)
populate(w, es, k) ==
    IF k > Len(es) THEN w
    ELSE populate([w EXCEPT ![<<es[k][1], es[k][2]>>] = es[k][3]], es, k + 1)

\* row.iter().filter(|x| x != INFINITY).count(), per row
row_counts(w, n) ==
    [i \in Idx(n) |-> Cardinality({j \in Idx(n) : w[<<i, j>>] # Inf})]

compute_edge_counts(w, n) ==
    [p \in Pairs(n) |-> IF w[p] # Inf THEN 1 ELSE 0]

\* an index past the matrix aborts build() (ndarray bounds check)
build_index_ok(es, n) ==
    \A k \in 1 .. Len(es) : es[k][1] < n /\ es[k][2] < n

build ==
    /\ pc = "builder"
    /\ LET n == build_n_nodes(max_node)
           w == populate([p \in Pairs(n) |-> Inf], edges, 1)
       IN  IF build_index_ok(edges, n)
           THEN /\ pc' = "built"
                /\ n_nodes' = n
                /\ weight_matrix' = w
                /\ edge_counts' = compute_edge_counts(w, n)
                /\ out_degrees' = row_counts(w, n)
           ELSE /\ pc' = "panic"
                /\ UNCHANGED graphVars
    /\ UNCHANGED <<builderVars, fwVars, path, result, solves, shortest_path>>

(***************************************************************************)
(* FloydWarshallRunner                                                     *)
(***************************************************************************)
init_next(w, n) == [p \in Pairs(n) |-> IF w[p] # Inf THEN p[2] ELSE 0]

\* the same loops recording the mid point itself as the next node
RECURSIVE find_shortest_distances_mid(_, _, _)
find_shortest_distances_mid(fw, t, n) ==
    IF t >= n * n * n THEN fw
    ELSE LET k == t \div (n * n)
             i == (t \div n) % n
             j == t % n
             dist_with_mid_point_k == FAdd(fw.d[<<i, k>>], fw.d[<<k, j>>])
         IN  IF FLess(dist_with_mid_point_k, fw.d[<<i, j>>])
             THEN find_shortest_distances_mid(
                      [fw EXCEPT !.d[<<i, j>>] = dist_with_mid_point_k,
                                 !.nx[<<i, j>>] = k], t + 1, n)
             ELSE find_shortest_distances_mid(fw, t + 1, n)

\* the same loops with the last mid point left out (for k in 0..n_nodes - 1)
RECURSIVE find_shortest_distances_short(_, _, _)
find_shortest_distances_short(fw, t, n) ==
    IF t >= n * n * (n - 1) THEN fw
    ELSE LET k == t \div (n * n)
             i == (t \div n) % n
             j == t % n
             dist_with_mid_point_k == FAdd(fw.d[<<i, k>>], fw.d[<<k, j>>])
         IN  IF FLess(dist_with_mid_point_k, fw.d[<<i, j>>])
             THEN find_shortest_distances_short(
                      [fw EXCEPT !.d[<<i, j>>] = dist_with_mid_point_k,
                                 !.nx[<<i, j>>] = fw.nx[<<i, k>>]], t + 1, n)
             ELSE find_shortest_distances_short(fw, t + 1, n)

\* the k, i, j loops, t = (k * n + i) * n + j
RECURSIVE find_shortest_distances(_, _, _)
find_shortest_distances(fw, t, n) ==
    IF t >= n * n * n THEN fw
    ELSE LET k == t \div (n * n)
             i == (t \div n) % n
             j == t % n
             dist_with_mid_point_k == FAdd(fw.d[<<i, k>>], fw.d[<<k, j>>])
         IN  IF FLess(dist_with_mid_point_k, fw.d[<<i, j>>])
             THEN find_shortest_distances(
                      [fw EXCEPT !.d[<<i, j>>] = dist_with_mid_point_k,
                                 !.nx[<<i, j>>] = fw.nx[<<i, k>>]], t + 1, n)
             ELSE find_shortest_distances(fw, t + 1, n)

\* the second pass with <= in place of <
RECURSIVE find_negative_cycle_le(_, _, _)
find_negative_cycle_le(fw, t, n) ==
    IF t >= n * n * n THEN fw
    ELSE LET k == t \div (n * n)
             i == (t \div n) % n
             j == t % n
             dist_with_mid_point_k == FAdd(fw.d[<<i, k>>], fw.d[<<k, j>>])
         IN  IF ~FLess(fw.d[<<i, j>>], dist_with_mid_point_k)
                /\ dist_with_mid_point_k # NaN /\ fw.d[<<i, j>>] # NaN
             THEN find_negative_cycle_le(
                      [fw EXCEPT !.neg = TRUE,
                                 !.d[<<i, j>>] = NegInf,
                                 !.nx[<<i, j>>] = UsizeMax], t + 1, n)
             ELSE find_negative_cycle_le(fw, t + 1, n)

RECURSIVE find_negative_cycle(_, _, _)
find_negative_cycle(fw, t, n) ==
    IF t >= n * n * n THEN fw
    ELSE LET k == t \div (n * n)
             i == (t \div n) % n
             j == t % n
             dist_with_mid_point_k == FAdd(fw.d[<<i, k>>], fw.d[<<k, j>>])
         IN  IF FLess(dist_with_mid_point_k, fw.d[<<i, j>>])
             THEN find_negative_cycle(
                      [fw EXCEPT !.neg = TRUE,
                                 !.d[<<i, j>>] = NegInf,
                                 !.nx[<<i, j>>] = UsizeMax], t + 1, n)
             ELSE find_negative_cycle(fw, t + 1, n)

FloydWarshallRunner_new(w, n) ==
    find_negative_cycle(
        find_shortest_distances(
            [d |-> w, nx |-> init_next(w, n), neg |-> FALSE], 0, n), 0, n)

graph_is_strongly_connected(d, n) == \A p \in Pairs(n) : d[p] # Inf

graph_has_no_negative_cycle(neg) == ~neg

\* CppSolver::new
new ==
    /\ pc = "built"
    /\ LET fw == FloydWarshallRunner_new(weight_matrix, n_nodes)
       IN  /\ shortest_distances' = fw.d
           /\ next' = fw.nx
           /\ have_negative_cycle' = fw.neg
    /\ pc' = "ready"
    /\ UNCHANGED <<builderVars, graphVars, path, result, solves, shortest_path>>

(***************************************************************************)
(* Graph                                                                   *)
(***************************************************************************)
\* vec![x; c]
RECURSIVE Repeat(_, _)
Repeat(x, c) == IF c <= 0 THEN <<>> ELSE <<x>> \o Repeat(x, c - 1)

\* Graph::out_in_diff on row v and column v of the weight matrix
out_in_diff(w, n, v) ==
    Cardinality({j \in Idx(n) : w[<<v, j>>] # Inf})
        - Cardinality({i \in Idx(n) : w[<<i, v>>] # Inf})

RECURSIVE imbalanced_from(_, _, _)
imbalanced_from(w, n, v) ==
    IF v >= n THEN [negative |-> <<>>, positive |-> <<>>]
    ELSE LET x == out_in_diff(w, n, v)
             rest == imbalanced_from(w, n, v + 1)
         IN  [negative |-> Repeat(v, 0 - x) \o rest.negative,
              positive |-> Repeat(v, x) \o rest.positive]

imbalanced_nodes(w, n) == imbalanced_from(w, n, 0)

\* Graph::add_edge on the graph record g = [w, c, od]
Graph_add_edge(g, from, to, weight) ==
    [w  |-> [g.w EXCEPT ![<<from, to>>] = weight],
     c  |-> [g.c EXCEPT ![<<from, to>>] = @ + 1],
     od |-> [g.od EXCEPT ![from] = @ + 1]]

\* The orders in which a HashMap can hand out its keys: every order.
Perms(S) ==
    {f \in [1 .. Cardinality(S) -> S] :
        \A a, b \in 1 .. Cardinality(S) : a # b => f[a] # f[b]}

RECURSIVE extend_row(_, _, _, _)
extend_row(c, from, order, k) ==
    IF k > Len(order) THEN <<>>
    ELSE Repeat(order[k], c[<<from, order[k]>>])
             \o extend_row(c, from, order, k + 1)

edge_set_rows(c, n, from) ==
    {extend_row(c, from, order, 1) :
        order \in Perms({to \in Idx(n) : c[<<from, to>>] > 0})}

RECURSIVE edge_set_from(_, _, _)
edge_set_from(c, n, v) ==
    IF v >= n THEN {<<>>}
    ELSE {<<row>> \o rest :
              row \in edge_set_rows(c, n, v), rest \in edge_set_from(c, n, v + 1)}

\* Graph::edge_set: one successor list per node, for every iteration order
\* of edge_counts
edge_set(c, n) == {[v \in Idx(n) |-> s[v + 1]] : s \in edge_set_from(c, n, 0)}

(***************************************************************************)
(* FloydWarshallRunner::shortest_path_between                              *)
(***************************************************************************)
\* A walk that pushed more than n nodes repeats one and never ends; an index
\* outside the matrix aborts.
RECURSIVE path_loop(_, _, _, _, _)
path_loop(nx, n, current_node, end, p) ==
    IF current_node = end THEN [status |-> "ok", path |-> Append(p, end)]
    ELSE IF current_node \notin Idx(n) \/ end \notin Idx(n)
         THEN [status |-> "panic", path |-> p]
    ELSE IF Len(p) > n THEN [status |-> "hang", path |-> p]
    ELSE path_loop(nx, n, nx[<<current_node, end>>], end,
                   Append(p, current_node))

shortest_path_between(nx, n, start, end) == path_loop(nx, n, start, end, <<>>)

NoPath == [start |-> 0, end |-> 0, status |-> "unset", path |-> <<>>]

\* a caller asks the runner for the path from start to end
ask_shortest_path(start, end) ==
    /\ pc = "ready"
    /\ solves = 0
    /\ LET sp == shortest_path_between(next, n_nodes, start, end)
       IN  shortest_path' = [start |-> start, end |-> end,
                             status |-> sp.status, path |-> sp.path]
    /\ pc' = "asked"
    /\ UNCHANGED <<builderVars, graphVars, fwVars, path, result, solves>>

(***************************************************************************)
(* hungarian::best_match                                                   *)
(***************************************************************************)
shortest_distances_between_imbalanced_nodes(imb, d) ==
    [i \in 1 .. Len(imb.negative) |->
        [j \in 1 .. Len(imb.positive) |->
            d[<<imb.negative[i], imb.positive[j]>>]]]

AssignCost(m, a) == SumOver(DOMAIN a, [i \in DOMAIN a |-> m[i][a[i]]])

Assignments(p, q) ==
    {a \in [1 .. p -> 1 .. q] : \A x, y \in 1 .. p : x # y => a[x] # a[y]}

\* pathfinding::kuhn_munkres_min: an assignment of every row to its own
\* column with the least total weight; which of several is not pinned here.
kuhn_munkres_min(m, p, q) ==
    {a \in Assignments(p, q) :
        \A b \in Assignments(p, q) : AssignCost(m, a) <= AssignCost(m, b)}

\* matching.insert(neg[i], pos[a[i]]) for i in order: a repeated key keeps
\* the value of its last insertion
best_match(imb, a) ==
    LET neg == imb.negative
        keys == {neg[i] : i \in 1 .. Len(neg)}
        last(u) == CHOOSE i \in 1 .. Len(neg) :
                       /\ neg[i] = u
                       /\ \A k \in 1 .. Len(neg) : neg[k] = u => k <= i
    IN  [u \in keys |-> imb.positive[a[last(u)]]]

(***************************************************************************)
(* CppSolver::balance_node                                                 *)
(***************************************************************************)
RECURSIVE duplicate_path(_, _, _)
duplicate_path(g, p, i) ==
    IF i > Len(p) THEN g
    ELSE duplicate_path(
             Graph_add_edge(g, p[i - 1], p[i], g.w[<<p[i - 1], p[i]>>]), p, i + 1)

\* the loop over the matching; the additions commute, so the order in which
\* the map hands out its pairs does not show in the graph
RECURSIVE balance_pairs(_, _, _, _, _)
balance_pairs(g, nx, n, matching, todo) ==
    IF todo = {} THEN [status |-> "ok", g |-> g]
    ELSE LET from == CHOOSE u \in todo : \A v \in todo : u <= v
             sp == shortest_path_between(nx, n, from, matching[from])
         IN  IF sp.status # "ok" THEN [status |-> sp.status, g |-> g]
             ELSE balance_pairs(duplicate_path(g, sp.path, 2), nx, n, matching,
                                todo \ {from})

balance_node(g, nx, n, a) ==
    LET imbalanced == imbalanced_nodes(g.w, n)
        matching == best_match(imbalanced, a)
    IN  IF imbalanced.negative = <<>> /\ imbalanced.positive = <<>>
        THEN [status |-> "ok", g |-> g]
        ELSE balance_pairs(g, nx, n, matching, DOMAIN matching)

(***************************************************************************)
(* HierholzerRunner                                                        *)
(***************************************************************************)
is_eulerian(g, n) ==
    \A v \in Idx(n) :
        SumOver(Idx(n), [to \in Idx(n) |-> g.c[<<v, to>>]]) = g.od[v]

\* find_path: p is self.path, which push_front extends
RECURSIVE find_path(_, _, _, _, _)
find_path(stack, es, od, p, n) ==
    IF stack = <<>> THEN [status |-> "ok", path |-> p]
    ELSE LET node == Last(stack)
         IN  IF node \notin Idx(n) THEN [status |-> "panic", path |-> p]
             ELSE IF od[node] > 0
             THEN IF es[node] = <<>> THEN [status |-> "panic", path |-> p]
                  ELSE find_path(Append(stack, Last(es[node])),
                                 [es EXCEPT ![node] = Front(@)],
                                 [od EXCEPT ![node] = @ - 1], p, n)
             ELSE find_path(Front(stack), es, od, <<node>> \o p, n)

HierholzerRunner_run(p, g, n, es) ==
    IF ~is_eulerian(g, n) THEN [status |-> "panic", path |-> p]
    ELSE find_path(<<0>>, es, g.od, p, n)

(***************************************************************************)
(* Path and CppSolver::solve                                               *)
(***************************************************************************)
RECURSIVE path_cost(_, _, _)
path_cost(p, w, k) ==
    IF k >= Len(p) THEN 0
    ELSE FAdd(w[<<p[k], p[k + 1]>>], path_cost(p, w, k + 1))

solvable(d, neg, n) ==
    graph_is_strongly_connected(d, n) /\ graph_has_no_negative_cycle(neg)

NoResult == [kind |-> "unset", path |-> <<>>, cost |-> 0]
Failed(kind) == [kind |-> kind, path |-> <<>>, cost |-> 0]

TheGraph == [w |-> weight_matrix, c |-> edge_counts, od |-> out_degrees]

\* hierholzer.run and Path::new on the balanced graph b.g
solve_walk(b, p, n, es) ==
    LET h == HierholzerRunner_run(p, b.g, n, es)
    IN  IF h.status # "ok"
        THEN [g |-> b.g, path |-> h.path, result |-> Failed(h.status)]
        ELSE [g |-> b.g, path |-> h.path,
              result |-> [kind |-> "some", path |-> h.path,
                          cost |-> path_cost(h.path, b.g.w, 1)]]

\* solve() with balance_node called ahead of the solvability gate
solve_outcome_balance_first(g, d, nx, neg, n, p, a, es) ==
    LET b == balance_node(g, nx, n, a)
    IN  IF ~solvable(d, neg, n)
        THEN [g |-> b.g, path |-> p, result |-> Failed("none")]
        ELSE IF b.status # "ok"
        THEN [g |-> b.g, path |-> p, result |-> Failed(b.status)]
        ELSE solve_walk(b, p, n, es)

\* solve(): a is what kuhn_munkres_min answers and es the successor lists
\* edge_set() builds, should the call get that far
solve_outcome(g, d, nx, neg, n, p, a, es) ==
    IF ~solvable(d, neg, n) THEN [g |-> g, path |-> p, result |-> Failed("none")]
    ELSE LET b == balance_node(g, nx, n, a)
         IN  IF b.status # "ok"
             THEN [g |-> b.g, path |-> p, result |-> Failed(b.status)]
             ELSE solve_walk(b, p, n, es)

\* the answers kuhn_munkres_min can give to this solver's best_match call
kuhn_answers ==
    LET imb == imbalanced_nodes(weight_matrix, n_nodes)
    IN  kuhn_munkres_min(
            shortest_distances_between_imbalanced_nodes(imb, shortest_distances),
            Len(imb.negative), Len(imb.positive))

solve ==
    /\ pc = "ready"
    /\ solves < MaxSolves
    /\ \E a \in kuhn_answers :
         \E es \in edge_set(balance_node(TheGraph, next, n_nodes, a).g.c, n_nodes) :
           LET o == solve_outcome(TheGraph, shortest_distances, next,
                                  have_negative_cycle, n_nodes, path, a, es)
           IN  /\ weight_matrix' = o.g.w
               /\ edge_counts' = o.g.c
               /\ out_degrees' = o.g.od
               /\ path' = o.path
               /\ result' = o.result
               /\ pc' = IF o.result.kind \in {"none", "some"} THEN "ready"
                        ELSE o.result.kind
    /\ solves' = solves + 1
    /\ UNCHANGED <<builderVars, n_nodes, fwVars, shortest_path>>

\* HierholzerRunner::new().run(&graph) on the graph build() returned
run ==
    /\ pc = "built"
    /\ \E es \in edge_set(edge_counts, n_nodes) :
           LET r == HierholzerRunner_run(path, TheGraph, n_nodes, es)
           IN  /\ path' = r.path
               /\ pc' = IF r.status = "ok" THEN "ran" ELSE "run_panic"
    /\ UNCHANGED <<builderVars, graphVars, fwVars, result, solves,
                   shortest_path>>

Init ==
    /\ pc = "builder"
    /\ edges = <<>>
    /\ max_node = 0
    /\ builder_labels = <<>>
    /\ n_nodes = 0
    /\ weight_matrix = EmptyFn
    /\ edge_counts = EmptyFn
    /\ out_degrees = EmptyFn
    /\ shortest_distances = EmptyFn
    /\ next = EmptyFn
    /\ have_negative_cycle = FALSE
    /\ path = <<>>
    /\ result = NoResult
    /\ solves = 0
    /\ shortest_path = NoPath

Next ==
    \/ \E from \in Nodes, to \in Nodes, weight \in Weights :
           GraphBuilder_add_edge(from, to, weight)
    \/ \E from_label \in Labels, to_label \in Labels, weight \in Weights :
           GraphBuilder_add_labeled_edge(from_label, to_label, weight)
    \/ build
    \/ new
    \/ solve
    \/ run

Spec == Init /\ [][Next]_vars

(***************************************************************************)
(* A builder that already holds DeclEdges declarations of distinct pairs   *)
(* over the nodes DeclNodes, the state add_edge calls leave behind.        *)
(***************************************************************************)
DeclWeight(from, to) == 1 + ((from + 2 * to) % 3)

DeclPair(k) == <<k \div Cardinality(DeclNodes), k % Cardinality(DeclNodes)>>

\* the increasing sequences of k pair numbers taken from lo..hi
RECURSIVE Increasing(_, _, _)
Increasing(k, lo, hi) ==
    IF k = 0 THEN {<<>>}
    ELSE UNION {{<<i>> \o r : r \in Increasing(k - 1, i + 1, hi)} :
                    i \in lo .. (hi - k + 1)}

DeclaredLists ==
    {[i \in 1 .. DeclEdges |->
         <<DeclPair(s[i])[1], DeclPair(s[i])[2],
           DeclWeight(DeclPair(s[i])[1], DeclPair(s[i])[2])>>] :
        s \in Increasing(DeclEdges, 0,
                         Cardinality(DeclNodes) * Cardinality(DeclNodes) - 1)}

RECURSIVE MaxIndex(_, _)
MaxIndex(es, k) ==
    IF k > Len(es) THEN 0
    ELSE Max(Max(es[k][1], es[k][2]), MaxIndex(es, k + 1))

InitDeclared ==
    /\ pc = "builder"
    /\ edges \in DeclaredLists
    /\ max_node = MaxIndex(edges, 1)
    /\ builder_labels = <<>>
    /\ n_nodes = 0
    /\ weight_matrix = EmptyFn
    /\ edge_counts = EmptyFn
    /\ out_degrees = EmptyFn
    /\ shortest_distances = EmptyFn
    /\ next = EmptyFn
    /\ have_negative_cycle = FALSE
    /\ path = <<>>
    /\ result = NoResult
    /\ solves = 0
    /\ shortest_path = NoPath

NextDeclared == build \/ new \/ solve

SpecDeclared == InitDeclared /\ [][NextDeclared]_vars

(***************************************************************************)
(* A graph made by Graph::from_weight_matrix, handed to CppSolver::new:     *)
(* any square matrix of MatrixSizes rows over MatrixWeights, or a matrix   *)
(* over WideNodes without loops whose edge (i, j), where present, weighs   *)
(* WideWeight(i, j).                                                       *)
(***************************************************************************)
MatrixSizes == 1 .. 3

MatrixWeights == {-2, 1, Inf}

WideNodes == 0 .. 3

WideWeight(i, j) == IF (i + 2 * j) % 3 = 0 THEN -1 ELSE (i + 2 * j) % 3

WideMatrices ==
    {[p \in WideNodes \X WideNodes |->
         IF p \in S THEN WideWeight(p[1], p[2]) ELSE Inf] :
        S \in SUBSET {p \in WideNodes \X WideNodes : p[1] # p[2]}}

Matrices(n) ==
    IF n \in MatrixSizes THEN [Pairs(n) -> MatrixWeights] ELSE WideMatrices

from_weight_matrix(w, n) ==
    [w |-> w, c |-> compute_edge_counts(w, n), od |-> row_counts(w, n)]

InitMatrix ==
    /\ pc = "built"
    /\ edges = <<>>
    /\ max_node = 0
    /\ builder_labels = <<>>
    /\ n_nodes \in MatrixSizes \cup {Cardinality(WideNodes)}
    /\ weight_matrix \in Matrices(n_nodes)
    /\ edge_counts = from_weight_matrix(weight_matrix, n_nodes).c
    /\ out_degrees = from_weight_matrix(weight_matrix, n_nodes).od
    /\ shortest_distances = EmptyFn
    /\ next = EmptyFn
    /\ have_negative_cycle = FALSE
    /\ path = <<>>
    /\ result = NoResult
    /\ solves = 0
    /\ shortest_path = NoPath

NextMatrix ==
    \/ new
    \/ \E start \in Idx(n_nodes), end \in Idx(n_nodes) :
           ask_shortest_path(start, end)

SpecMatrix == InitMatrix /\ [][NextMatrix]_vars

(***************************************************************************)
(* Reference notions, defined on the declarations and on the weight matrix *)
(* without any of the solver's tables.                                     *)
(***************************************************************************)
FirstSolveReturned == solves = 1 /\ result.kind = "some"

\* the number of declarations of the edge (i, j)
Declared(i, j) ==
    Cardinality({k \in 1 .. Len(edges) : edges[k][1] = i /\ edges[k][2] = j})

\* the number of steps i -> j in the walk p
StepCount(p, i, j) ==
    Cardinality({k \in 1 .. (Len(p) - 1) : p[k] = i /\ p[k + 1] = j})

RECURSIVE Reach(_)
Reach(S) ==
    LET T == S \cup {j \in Idx(n_nodes) :
                        \E i \in S : weight_matrix[<<i, j>>] # Inf}
    IN  IF T = S THEN S ELSE Reach(T)

StronglyConnected ==
    \A i, j \in Idx(n_nodes) :
        i # j => \E m \in Idx(n_nodes) :
                    weight_matrix[<<i, m>>] # Inf /\ j \in Reach({m})

SimpleCycles ==
    UNION {{c \in [1 .. k -> Idx(n_nodes)] :
               \A a, b \in 1 .. k : a # b => c[a] # c[b]} : k \in 1 .. n_nodes}

CycleEdge(c, i) == <<c[i], c[(i % Len(c)) + 1]>>

HasNegativeCycle ==
    \E c \in SimpleCycles :
        /\ \A i \in 1 .. Len(c) : weight_matrix[CycleEdge(c, i)] # Inf
        /\ SumOver(1 .. Len(c),
                   [i \in 1 .. Len(c) |-> weight_matrix[CycleEdge(c, i)]]) < 0

OutC(v) == SumOver(Idx(n_nodes), [j \in Idx(n_nodes) |-> edge_counts[<<v, j>>]])
InC(v) == SumOver(Idx(n_nodes), [j \in Idx(n_nodes) |-> edge_counts[<<j, v>>]])

\* the graph build() made of the declarations, before any balancing
BuiltGraph ==
    LET w == populate([p \in Pairs(n_nodes) |-> Inf], edges, 1)
    IN  [w |-> w, c |-> compute_edge_counts(w, n_nodes),
         od |-> row_counts(w, n_nodes)]

(***************************************************************************)
(* C1: solve returns None exactly when the graph is not strongly connected *)
(* or has a negative cycle, and returns a walk for every graph that is     *)
(* strongly connected and free of negative cycles.                         *)
(***************************************************************************)
C1_NoneIffUnsolvable ==
    solves = 1 =>
        /\ (result.kind = "none") <=> (~StronglyConnected \/ HasNegativeCycle)
        /\ (StronglyConnected /\ ~HasNegativeCycle) => result.kind = "some"

(***************************************************************************)
(* C2: the cost of the returned walk is the least cost of a closed walk    *)
(* that traverses every declared edge at least once.  Such a walk uses     *)
(* declaration k some f[k] >= 1 times with every node entered as often as  *)
(* left; at an optimum no declaration is used more than once per unit of   *)
(* imbalance on top of its own traversal.                                  *)
(***************************************************************************)
DeclOut(v) == Cardinality({k \in 1 .. Len(edges) : edges[k][1] = v})
DeclIn(v) == Cardinality({k \in 1 .. Len(edges) : edges[k][2] = v})

Surplus ==
    SumOver(Idx(n_nodes),
            [v \in Idx(n_nodes) |->
                IF DeclOut(v) > DeclIn(v) THEN DeclOut(v) - DeclIn(v) ELSE 0])

Coverings ==
    {f \in [1 .. Len(edges) -> 1 .. (1 + Surplus)] :
        \A v \in Idx(n_nodes) :
            SumOver({k \in 1 .. Len(edges) : edges[k][1] = v}, f)
                = SumOver({k \in 1 .. Len(edges) : edges[k][2] = v}, f)}

CoveringCost(f) ==
    SumOver(1 .. Len(edges), [k \in 1 .. Len(edges) |-> f[k] * edges[k][3]])

C2_CostIsMinimum ==
    FirstSolveReturned =>
        /\ \E f \in Coverings : CoveringCost(f) = result.cost
        /\ \A f \in Coverings : result.cost <= CoveringCost(f)

(***************************************************************************)
(* C3: the walk contains the step i -> j at least as often as the edge     *)
(* (i, j) was declared.                                                    *)
(***************************************************************************)
C3_EdgeCoverage ==
    FirstSolveReturned =>
        \A i, j \in Idx(n_nodes) : StepCount(result.path, i, j) >= Declared(i, j)

(***************************************************************************)
(* C4: the first and the last node of the returned walk are the same.      *)
(***************************************************************************)
C4_WalkClosed ==
    FirstSolveReturned =>
        /\ result.path # <<>>
        /\ result.path[1] = Last(result.path)

(***************************************************************************)
(* C5: the walk has as many steps as the balanced graph has edge units and *)
(* takes the step i -> j exactly edge_counts[i, j] times.                  *)
(***************************************************************************)
C5_EulerianCircuit ==
    FirstSolveReturned =>
        /\ Len(result.path) - 1 = SumOver(Idx(n_nodes), [v \in Idx(n_nodes) |-> OutC(v)])
        /\ \A i, j \in Idx(n_nodes) :
               StepCount(result.path, i, j) = edge_counts[<<i, j>>]

(***************************************************************************)
(* C6: a solve call that returns None leaves the weight matrix, the edge   *)
(* counts and the out-degrees as they were.                                *)
(***************************************************************************)
C6_NoneLeavesGraph ==
    [][(solves' = solves + 1 /\ result'.kind = "none") => UNCHANGED graphVars]_vars

\* solve has returned None on a graph whose nodes are not balanced
C6_Witness ==
    /\ solves >= 1
    /\ result.kind = "none"
    /\ imbalanced_nodes(weight_matrix, n_nodes).negative # <<>>

(***************************************************************************)
(* C7: the walk is the same whatever order the edge-count map is iterated  *)
(* in and whichever least-cost assignment the matcher answers.             *)
(***************************************************************************)
C7_SameWalk ==
    FirstSolveReturned =>
        \A a \in kuhn_answers :
            \A es \in edge_set(balance_node(BuiltGraph, next, n_nodes, a).g.c, n_nodes) :
                solve_outcome(BuiltGraph, shortest_distances, next,
                              have_negative_cycle, n_nodes, <<>>, a, es).result.path
                    = result.path

(***************************************************************************)
(* C8: with at least one declaration, build() does not abort and the graph *)
(* has (largest declared index) + 1 nodes.                                 *)
(***************************************************************************)
BuildAborted == pc = "panic" /\ solves = 0

C8_BuildSucceeds ==
    (pc # "builder" /\ Len(edges) >= 1) =>
        /\ ~BuildAborted
        /\ n_nodes = MaxIndex(edges, 1) + 1

(***************************************************************************)
(* C9: after build(), edge_counts[i, j] is the number of declarations of   *)
(* (i, j) and weight_matrix[i, j] the weight of the last of them.          *)
(***************************************************************************)
LastDeclaration(i, j) ==
    CHOOSE k \in 1 .. Len(edges) :
        /\ edges[k][1] = i /\ edges[k][2] = j
        /\ \A m \in 1 .. Len(edges) :
               (edges[m][1] = i /\ edges[m][2] = j) => m <= k

C9_CountsAndLastWeight ==
    pc = "built" =>
        \A i, j \in Idx(n_nodes) :
            /\ edge_counts[<<i, j>>] = Declared(i, j)
            /\ Declared(i, j) > 0 =>
                   weight_matrix[<<i, j>>] = edges[LastDeclaration(i, j)][3]

(***************************************************************************)
(* C10: after balancing, every node has as many outgoing as incoming edge  *)
(* units in edge_counts.                                                   *)
(***************************************************************************)
C10_Balanced ==
    FirstSolveReturned => \A v \in Idx(n_nodes) : OutC(v) = InC(v)

(***************************************************************************)
(* C11: with as many negative as positive entries, best_match returns as   *)
(* many pairs as there are negative entries, every negative entry is the   *)
(* source of exactly one pair, every positive entry the target of exactly  *)
(* one pair, and no perfect pairing has a smaller sum of distances.        *)
(***************************************************************************)
Occurrences(s, x) == Cardinality({i \in 1 .. Len(s) : s[i] = x})

PairingCost(imb, b) ==
    SumOver(1 .. Len(imb.negative),
            [i \in 1 .. Len(imb.negative) |->
                shortest_distances[<<imb.negative[i], imb.positive[b[i]]>>]])

C11_PerfectMatching ==
    FirstSolveReturned =>
        LET imb == imbalanced_nodes(weight_matrix, n_nodes)
        IN  Len(imb.negative) = Len(imb.positive) =>
                \A a \in kuhn_answers :
                    LET m == best_match(imb, a)
                    IN  /\ Cardinality(DOMAIN m) = Len(imb.negative)
                        /\ \A u \in Idx(n_nodes) :
                               Occurrences(imb.negative, u)
                                   = Cardinality({x \in DOMAIN m : x = u})
                        /\ \A v \in Idx(n_nodes) :
                               Occurrences(imb.positive, v)
                                   = Cardinality({x \in DOMAIN m : m[x] = v})
                        /\ \A b \in Assignments(Len(imb.negative),
                                                Len(imb.positive)) :
                               SumOver(DOMAIN m,
                                       [x \in DOMAIN m |->
                                           shortest_distances[<<x, m[x]>>]])
                                   <= PairingCost(imb, b)

(***************************************************************************)
(* C12: in every graph state, after build() and after any number of        *)
(* Graph::add_edge calls, imbalanced_nodes() lists each node v exactly     *)
(* |out(v) - in(v)| times, among the positive entries when out(v) > in(v)  *)
(* and among the negative ones when out(v) < in(v), out and in being the   *)
(* row and column sums of edge_counts; the two lists are equally long.     *)
(***************************************************************************)
C12_ImbalanceFromCounts ==
    pc \in {"built", "ready"} =>
        LET imb == imbalanced_nodes(weight_matrix, n_nodes)
        IN  /\ \A v \in Idx(n_nodes) :
                  /\ Occurrences(imb.positive, v) = Max(OutC(v) - InC(v), 0)
                  /\ Occurrences(imb.negative, v) = Max(InC(v) - OutC(v), 0)
            /\ Len(imb.negative) = Len(imb.positive)

(***************************************************************************)
(* C13: for a weight matrix without negative cycle, after                  *)
(* FloydWarshallRunner::new shortest_distances[i, j] is the least total    *)
(* weight of the non-empty walks from i to j, +inf exactly when there is   *)
(* none, so graph_is_strongly_connected() holds exactly when every node    *)
(* reaches every node, itself included, by a non-empty walk.               *)
(***************************************************************************)
MinOf(S) == CHOOSE x \in S : \A y \in S : x <= y

\* least total weight of the walks from i to j of 1 .. k edges, by their
\* last edge
RECURSIVE WalkWeight(_, _, _)
WalkWeight(i, j, k) ==
    IF k = 1 THEN weight_matrix[<<i, j>>]
    ELSE MinOf({WalkWeight(i, j, k - 1)} \cup
               {FAdd(WalkWeight(i, m, k - 1), weight_matrix[<<m, j>>]) :
                    m \in Idx(n_nodes)})

HasWalk(i, j) ==
    \E m \in Idx(n_nodes) : weight_matrix[<<i, m>>] # Inf /\ j \in Reach({m})

MainPass ==
    find_shortest_distances(
        [d |-> weight_matrix, nx |-> init_next(weight_matrix, n_nodes),
         neg |-> FALSE], 0, n_nodes).d

C16_EmptyWhenUnreachable ==
    (/\ pc = "asked"
     /\ shortest_path.start # shortest_path.end
     /\ ~HasWalk(shortest_path.start, shortest_path.end)) =>
        /\ shortest_path.status = "ok"
        /\ shortest_path.path = <<>>

(***************************************************************************)
(* C17: HierholzerRunner::run panics and produces no walk for a graph that *)
(* is not Eulerian, in particular for a graph where some node has an       *)
(* out-degree different from its in-degree.                                *)
(***************************************************************************)
C17_RunRejectsUnbalanced ==
    (/\ pc \in {"ran", "run_panic"}
     /\ \E v \in Idx(n_nodes) : OutC(v) # InC(v)) =>
        /\ pc = "run_panic"
        /\ path = <<>>

(***************************************************************************)
(* C18: a second solve() on the same CppSolver returns the same walk and   *)
(* cost as the first and leaves edge_counts and out_degrees as the first   *)
(* call left them.                                                         *)
(***************************************************************************)
C18_SecondSolveSame ==
    [][(solves = 1 /\ solves' = 2 /\ result.kind = "some") =>
           /\ result'.kind = "some"
           /\ result'.path = result.path
           /\ result'.cost = result.cost
           /\ edge_counts' = edge_counts
           /\ out_degrees' = out_degrees]_vars
====
